---- MODULE Spec2Model ----
(***************************************************************************)
(* Model of the baseline feature scanner (src/unnamed/part_000): the       *)
(* catalog build (normalizeFeatures, loadBaselineIgnore, loadBaselineJson, *)
(* the merge in run), the per-file scan with its aggregation into the      *)
(* report map, and the verdict computed at the end of run.                 *)
(*                                                                         *)
(* JavaScript strings are sequences of one-character strings, so that      *)
(* toLowerCase, trim, split and replace are computed character by          *)
(* character.  JavaScript Map and Set objects are insertion-ordered        *)
(* sequences.                                                              *)
(***************************************************************************)
EXTENDS Naturals, Sequences, FiniteSets

\* ------------------------------------------------------------------ bounds
MaxBundled == 1
MaxOverrides == 1
MaxIgnoreLines == 1
MaxFiles == 2
MaxTokens == 1
MaxCritical == 1
MaxOrderFiles == 3
MaxRuns == 2
MaxDetails == 1
MaxOtherComments == 31

\* ------------------------------------------------------- JavaScript values
\* `undefined` where a string is expected: a sequence no string is equal to.
Undef == <<"#undefined">>

\* values of a record's baseline / status member
BUndef == "undefined"
BTrue == "true"
BFalse == "false"
BLimited == "limited"

Range(s) == {s[i] : i \in 1..Len(s)}

SeqsUpTo(S, n) == UNION {[1..k -> S] : k \in 0..n}

\* a ?? b on strings and on baseline values
Coalesce(a, b) == IF a = Undef THEN b ELSE a
CoalesceB(a, b) == IF a = BUndef THEN b ELSE a

LowerChar(c) ==
  CASE c = "F" -> "f"
    [] c = "G" -> "g"
    [] c = "A" -> "a"
    [] OTHER -> c

\* String.prototype.toLowerCase
ToLowerCase(s) == [pos \in 1..Len(s) |-> LowerChar(s[pos])]

\* x?.toLowerCase()
OptLower(s) == IF s = Undef THEN Undef ELSE ToLowerCase(s)

IsSpace(c) == c \in {" ", "\t", "\r", "\n"}

RECURSIVE TrimStart(_)
TrimStart(s) ==
  IF s # <<>> /\ IsSpace(Head(s)) THEN TrimStart(Tail(s)) ELSE s

RECURSIVE TrimEnd(_)
TrimEnd(s) ==
  IF s # <<>> /\ IsSpace(s[Len(s)]) THEN TrimEnd(SubSeq(s, 1, Len(s) - 1)) ELSE s

\* String.prototype.trim
Trim(s) == TrimEnd(TrimStart(s))

\* s.replace(/\s+/g, '-'): every maximal run of white space becomes one hyphen
RECURSIVE ReplaceSpaces(_)
ReplaceSpaces(s) ==
  IF s = <<>> THEN <<>>
  ELSE IF IsSpace(Head(s)) THEN <<"-">> \o ReplaceSpaces(TrimStart(s))
  ELSE <<Head(s)>> \o ReplaceSpaces(Tail(s))

\* content.split(/\r?\n/), cur being the line read so far
RECURSIVE SplitLines(_, _)
SplitLines(s, cur) ==
  IF s = <<>> THEN <<cur>>
  ELSE IF Head(s) = "\n" THEN <<cur>> \o SplitLines(Tail(s), <<>>)
  ELSE IF Head(s) = "\r" /\ Len(s) >= 2 /\ s[2] = "\n"
    THEN <<cur>> \o SplitLines(Tail(Tail(s)), <<>>)
  ELSE SplitLines(Tail(s), Append(cur, Head(s)))

\* pseudo.value.replace(/^:+/, '')
RECURSIVE StripColons(_)
StripColons(s) ==
  IF s # <<>> /\ Head(s) = ":" THEN StripColons(Tail(s)) ELSE s

\* ------------------------------------------------------------ Map and Set
\* A Map is a sequence of [key, value] in insertion order.
MapHas(m, k) == \E i \in 1..Len(m) : m[i].key = k

MapIndex(m, k) == CHOOSE i \in 1..Len(m) : m[i].key = k

MapGet(m, k) == m[MapIndex(m, k)].value

\* a set that deletes the key and enters it again, at the end
MapSetMoveToEnd(m, k, v) ==
  LET Other(e) == e.key # k
  IN Append(SelectSeq(m, Other), [key |-> k, value |-> v])

\* Map.prototype.set: an existing key keeps its place and takes the new value
MapSet(m, k, v) ==
  IF MapHas(m, k)
    THEN [m EXCEPT ![MapIndex(m, k)] = [key |-> k, value |-> v]]
    ELSE Append(m, [key |-> k, value |-> v])

MapValues(m) == [i \in 1..Len(m) |-> m[i].value]

\* Set.prototype.add on an insertion-ordered Set
SetAdd(s, x) == IF x \in Range(s) THEN s ELSE Append(s, x)

\* ------------------------------------------------------ catalog normalizer
\* A raw record (an array element, or the value under a key of an object):
\*   [key, null, id, name, baseline, status, description]
\* key is the property name under which Object.entries yields it; null says the
\* value is JSON null; a member the record lacks is Undef / BUndef.
RawRecord(k, i, n, b, st, d) ==
  [key |-> k, null |-> FALSE, id |-> i, name |-> n, baseline |-> b,
   status |-> st, description |-> d]

NullRecord(k) ==
  [key |-> k, null |-> TRUE, id |-> Undef, name |-> Undef, baseline |-> BUndef,
   status |-> BUndef, description |-> Undef]

Digits == <<"0", "1", "2", "3", "4", "5", "6", "7", "8", "9">>

\* Object.entries(value): the own enumerable string-keyed properties.  A string
\* yields one entry per character, keyed by its index, whose value is a
\* one-character string (no name, baseline or description member); a number
\* yields none.
ObjectEntries(v) ==
  CASE v.kind = "object" -> v.items
    [] v.kind = "string" ->
         [i \in 1..Len(v.chars) |->
            RawRecord(<<Digits[i]>>, Undef, Undef, BUndef, BUndef, Undef)]
    [] OTHER -> <<>>

\* !raw
Falsy(v) == v.kind = "undefined" \/ (v.kind = "string" /\ v.chars = <<>>)

\* f.name ? ... : ...
Truthy(s) == s # Undef /\ s # <<>>

\* the array branch of normalizeFeatures, for one element
NormalizeArrayItem(f) ==
  [id |-> Coalesce(f.id, IF Truthy(f.name)
                           THEN ReplaceSpaces(ToLowerCase(f.name))
                           ELSE Undef),
   name |-> f.name,
   baseline |-> CoalesceB(f.baseline, CoalesceB(f.status, BFalse)),
   description |-> Coalesce(f.description, <<>>)]

\* the object branch of normalizeFeatures, for one [id, data] entry
NormalizeObjectEntry(e) ==
  [id |-> e.key,
   name |-> Coalesce(e.name, e.key),
   baseline |-> CoalesceB(e.baseline, BFalse),
   description |-> Coalesce(e.description, <<>>)]

Returned(v) == [threw |-> FALSE, value |-> v]

Thrown == [threw |-> TRUE, value |-> <<>>]

\* normalizeFeatures(raw): reading a member of null throws a TypeError
normalizeFeatures(raw) ==
  IF Falsy(raw) THEN Returned(<<>>)
  ELSE IF raw.kind = "array"
    THEN IF \E i \in 1..Len(raw.items) : raw.items[i].null
           THEN Thrown
           ELSE Returned([i \in 1..Len(raw.items) |-> NormalizeArrayItem(raw.items[i])])
    ELSE LET es == ObjectEntries(raw) IN
         IF \E i \in 1..Len(es) : es[i].null
           THEN Thrown
           ELSE Returned([i \in 1..Len(es) |-> NormalizeObjectEntry(es[i])])

\* loadBaselineIgnore(cwd): file is [present, content]
loadBaselineIgnore(file) ==
  IF ~file.present THEN {}
  ELSE {l \in {ToLowerCase(Trim(line)) : line \in Range(SplitLines(file.content, <<>>))} :
          l # <<>>}

EmptyObject == [kind |-> "object", items |-> <<>>, chars |-> <<>>]

\* loadBaselineJson(cwd): file is [state, value]; a missing file and a
\* JSON.parse error both end in the catch block
loadBaselineJson(file) ==
  IF file.state = "parsed" THEN file.value ELSE EmptyObject

\* Object.entries(baselineJson).map(...) in run: Object.entries(null) throws,
\* and so does reading data.baseline of a null data
LocalOverride(e) ==
  [id |-> ToLowerCase(e.key),
   name |-> e.key,
   baseline |-> CoalesceB(e.baseline, BFalse),
   description |-> Coalesce(e.description, <<>>)]

LocalOverridesOf(json) ==
  IF json.kind = "null" THEN Thrown
  ELSE LET es == ObjectEntries(json) IN
       IF \E i \in 1..Len(es) : es[i].null
         THEN Thrown
         ELSE Returned([i \in 1..Len(es) |-> LocalOverride(es[i])])

\* --------------------------------------------------------- catalog merger
MergeOrderLocalFirst(defaults, locals) == locals \o defaults

\* [...defaultFeatures, ...localOverrides]
MergeOrder(defaults, locals) == defaults \o locals

Ignored(f, ignore) == OptLower(f.name) \in ignore \/ f.id \in ignore

RECURSIVE MergeInto(_, _, _)
MergeInto(m, fs, ignore) ==
  IF fs = <<>> THEN m
  ELSE MergeInto(IF Ignored(Head(fs), ignore)
                   THEN m
                   ELSE MapSet(m, OptLower(Head(fs).name), Head(fs)),
                 Tail(fs), ignore)

MergeCatalog(defaults, locals, ignore) ==
  MergeInto(<<>>, MergeOrder(defaults, locals), ignore)

\* -------------------------------------------------------------- detectors
\* The text of a file is [readable, parses, tokens]: whether fs.readFile
\* succeeds, whether the parser of its grammar accepts it, and the names the
\* traversal probes, in traversal order (identifier and member-object names
\* of a script; pseudo values, with their leading colons, of a stylesheet).

\* new Map(features.map((f) => [f.name?.toLowerCase(), f]))
RECURSIVE FeatureMapOf(_, _)
FeatureMapOf(m, fs) ==
  IF fs = <<>> THEN m
  ELSE FeatureMapOf(MapSet(m, OptLower(Head(fs).name), Head(fs)), Tail(fs))

\* the traversal: used.add(featureMap.get(name)) for every probed name the
\* map has; strip is TRUE for pseudo values
RECURSIVE Probe(_, _, _, _)
Probe(used, tokens, featureMap, strip) ==
  IF tokens = <<>> THEN used
  ELSE LET name == ToLowerCase(IF strip THEN StripColons(Head(tokens))
                                        ELSE Head(tokens))
       IN Probe(IF MapHas(featureMap, name)
                  THEN SetAdd(used, MapGet(featureMap, name))
                  ELSE used,
                Tail(tokens), featureMap, strip)

\* detectFeaturesInJS(content, features): a parse error returns []
detectFeaturesInJS(content, fs) ==
  IF ~content.parses THEN Returned(<<>>)
  ELSE Returned(Probe(<<>>, content.tokens, FeatureMapOf(<<>>, fs), FALSE))

\* detectFeaturesInCSS(content, features): postcss.parse throws on a parse error
detectFeaturesInCSS(content, fs) ==
  IF ~content.parses THEN Thrown
  ELSE Returned(Probe(<<>>, content.tokens, FeatureMapOf(<<>>, fs), TRUE))

ScriptExts == {"js", "ts", "jsx", "tsx", "html"}

\* lines 157-160 of run: read the file and run the detector of its extension
FileDetections(file, content, fs) ==
  IF ~content.readable THEN Thrown
  ELSE IF file.ext \in ScriptExts THEN detectFeaturesInJS(content, fs)
  ELSE IF file.ext = "css" THEN detectFeaturesInCSS(content, fs)
  ELSE Returned(<<>>)

NoCatch(outcome) == outcome

\* the try / catch around the body of the file loop: an error ends the
\* iteration before the report is touched
CatchFileError(outcome) == IF outcome.threw THEN Returned(<<>>) ELSE outcome

\* ------------------------------------------------------------- aggregator
ArrayPush(s, x) == Append(s, x)

\* entry.files.add(file)
AddFile(filesOfEntry, file) == SetAdd(filesOfEntry, file)

\* lines 162-166 of run, for the features detected in one file
RECURSIVE FoldDetected(_, _, _)
FoldDetected(rep, detected, file) ==
  IF detected = <<>> THEN rep
  ELSE LET f == Head(detected)
           entry == IF MapHas(rep, f.id) THEN MapGet(rep, f.id)
                    ELSE [feature |-> f, files |-> <<>>]
       IN FoldDetected(MapSet(rep, f.id, [entry EXCEPT !.files = AddFile(@, file)]),
                       Tail(detected), file)

\* one iteration of the file loop; the result says whether run itself threw
ScanOne(rep, file, content, fs) ==
  LET r == CatchFileError(FileDetections(file, content, fs)) IN
  IF r.threw THEN [threw |-> TRUE, value |-> rep]
  ELSE [threw |-> FALSE, value |-> FoldDetected(rep, r.value, file)]

\* lines 172-175
ResultsOf(rep) ==
  [i \in 1..Len(rep) |->
     [id |-> rep[i].key,
      name |-> rep[i].value.feature.name,
      baseline |-> rep[i].value.feature.baseline,
      files |-> rep[i].value.files]]

\* ------------------------------------------------------- policy evaluator
\* results.filter((r) => r.baseline === false)
UnsafeOf(res) == LET T(r) == r.baseline = BFalse IN SelectSeq(res, T)

\* criticalFeatures.map(f => f.toLowerCase())
CriticalLower(crit) == [i \in 1..Len(crit) |-> ToLowerCase(crit[i])]

\* results.filter(r => criticalLower.includes(r.id))
CriticalDetectedOf(res, crit) ==
  LET T(r) == r.id \in Range(CriticalLower(crit)) IN SelectSeq(res, T)

\* !(failOnLimited && (unsafe.length > 0 || criticalDetected.length > 0))
OkOf(fail, uns, critDet) == ~(fail /\ (Len(uns) > 0 \/ Len(critDet) > 0))

\* ------------------------------------------------------------------ state
VARIABLES
  pc,                \* position in run
  wfFeatures,        \* the bundled catalog, as imported
  ignoreFile,        \* .baselineignore: [present, content]
  jsonFile,          \* baseline.json: [state, value]
  fsFiles,           \* what the glob yields, in its order
  fsContent,         \* path -> text of the file
  failOnLimited,     \* argument of run
  criticalFeatures,  \* argument of run
  baselineIgnore, defaultFeatures, baselineJson, localOverrides,
  merged, features, files, fileIdx, report,
  results, unsafe, criticalDetected, ok,
  \* the pull-request comment step (src/README.md, lines 311-399)
  prComments,        \* the comments of the pull request, oldest first
  stepPc,            \* position in the step's run
  stepRuns,          \* runs of the step started so far
  commentBody,       \* the body the latest run built (<<>> when it built none)
  comments           \* what listComments returned to the run

inputs == <<wfFeatures, ignoreFile, jsonFile, fsFiles, fsContent,
            failOnLimited, criticalFeatures>>

vars == <<pc, wfFeatures, ignoreFile, jsonFile, fsFiles, fsContent,
          failOnLimited, criticalFeatures,
          baselineIgnore, defaultFeatures, baselineJson, localOverrides,
          merged, features, files, fileIdx, report,
          results, unsafe, criticalDetected, ok,
          prComments, stepPc, stepRuns, commentBody, comments>>

commentVars == <<prComments, stepPc, stepRuns, commentBody, comments>>

\* ----------------------------------------------------------------- inputs
DistinctKeys(s) == \A i, j \in 1..Len(s) : i < j => s[i].key # s[j].key

\* a catalog source of every shape: absent, a number, a string, an array of
\* records, an object of records (its keys distinct)
UndefinedValue == [kind |-> "undefined", items |-> <<>>, chars |-> <<>>]
NullValue == [kind |-> "null", items |-> <<>>, chars |-> <<>>]
NumberValue == [kind |-> "number", items |-> <<>>, chars |-> <<>>]
StringValue(cs) == [kind |-> "string", items |-> <<>>, chars |-> cs]
ArrayValue(s) == [kind |-> "array", items |-> s, chars |-> <<>>]
ObjectValue(s) == [kind |-> "object", items |-> s, chars |-> <<>>]

ArraysOf(items, n) == {ArrayValue(s) : s \in SeqsUpTo(items, n)}

ObjectsOf(items, n) ==
  {ObjectValue(s) : s \in {t \in SeqsUpTo(items, n) : DistinctKeys(t)}}

\* baseline and status members that occur together in a record
BaselineStatus ==
  {<<BUndef, BUndef>>, <<BUndef, BLimited>>, <<BTrue, BLimited>>, <<BFalse, BUndef>>}

\* elements of an array-shaped catalog
ArrayItems ==
  {NullRecord(Undef)} \cup
  {RawRecord(Undef, i, n, bs[1], bs[2], Undef) :
     i \in {Undef, <<"F">>}, n \in {Undef, <<"F", " ", "g">>}, bs \in BaselineStatus}

\* entries of an object-shaped catalog
ObjectItems ==
  {NullRecord(k) : k \in {<<"f">>, <<"F">>}} \cup
  {RawRecord(k, Undef, n, bs[1], bs[2], Undef) :
     k \in {<<"f">>, <<"F">>}, n \in {Undef, <<"g">>}, bs \in BaselineStatus}

CatalogSources ==
  {UndefinedValue, NumberValue, StringValue(<<>>), StringValue(<<"a">>)}
    \cup ArraysOf(ArrayItems, MaxBundled) \cup ObjectsOf(ObjectItems, MaxBundled)

\* entries of baseline.json
OverrideItems ==
  {NullRecord(k) : k \in {<<"f">>, <<"F">>}} \cup
  {RawRecord(k, Undef, Undef, bd[1], BUndef, bd[2]) :
     k \in {<<"f">>, <<"F">>}, bd \in {<<BUndef, Undef>>, <<BTrue, <<"o">>>>}}

Parsed(v) == [state |-> "parsed", value |-> v]

JsonFiles ==
  {[state |-> "missing", value |-> UndefinedValue],
   [state |-> "unparsable", value |-> UndefinedValue],
   Parsed(NullValue), Parsed(StringValue(<<"a">>))}
    \cup {Parsed(v) : v \in ObjectsOf(OverrideItems, MaxOverrides)}

RECURSIVE JoinLines(_)
JoinLines(ls) ==
  IF ls = <<>> THEN <<>>
  ELSE IF Len(ls) = 1 THEN ls[1]
  ELSE ls[1] \o <<"\n">> \o JoinLines(Tail(ls))

IgnoreLines == {<<" ", "F", "\r">>}

IgnoreFiles ==
  {[present |-> FALSE, content |-> <<>>]} \cup
  {[present |-> TRUE, content |-> JoinLines(ls)] :
     ls \in SeqsUpTo(IgnoreLines, MaxIgnoreLines)}

\* files: a script and a stylesheet
ScriptPath == [base |-> "a", ext |-> "js"]
StylePath == [base |-> "b", ext |-> "css"]
Paths == {ScriptPath, StylePath}

Unreadable == [readable |-> FALSE, parses |-> FALSE, tokens |-> <<>>]
Unparsable == [readable |-> TRUE, parses |-> FALSE, tokens |-> <<>>]
Text(ts) == [readable |-> TRUE, parses |-> TRUE, tokens |-> ts]

ScriptTexts ==
  {Unreadable, Unparsable} \cup
  {Text(ts) : ts \in SeqsUpTo({<<"f">>, <<"G">>}, MaxTokens)}

StyleTexts ==
  {Unparsable} \cup
  {Text(ts) : ts \in SeqsUpTo({<<":", "f">>, <<":", ":", "G">>}, MaxTokens)}

FileContents ==
  {[p \in Paths |-> IF p = ScriptPath THEN a ELSE b] :
     a \in ScriptTexts, b \in StyleTexts}

\* the glob result is taken as it comes: no order and no absence of repeated
\* paths is assumed of it
FileLists == SeqsUpTo(Paths, MaxFiles)

CriticalLists == SeqsUpTo({<<"f">>, <<"F">>}, MaxCritical)

\* the catalogs of the scan and verdict specifications: well-formed objects
ScanObjectItems ==
  {RawRecord(k, Undef, n, b, BUndef, Undef) :
     k \in {<<"f">>, <<"F">>}, n \in {Undef, <<"g">>}, b \in {BTrue, BFalse}}

ScanCatalogSources == ObjectsOf(ScanObjectItems, MaxBundled)

ScanOverrideItems ==
  {RawRecord(<<"f">>, Undef, Undef, b, BUndef, Undef) : b \in {BTrue, BFalse}}

ScanJsonFiles ==
  {[state |-> "missing", value |-> UndefinedValue]}
    \cup {Parsed(ObjectValue(<<e>>)) : e \in ScanOverrideItems}

NoIgnoreFile == [present |-> FALSE, content |-> <<>>]

\* ------------------------------------------------------------------- Init
\* the comment step has not run, on a pull request without comments
NoCommentStep ==
  /\ prComments = <<>>
  /\ stepPc = "idle"
  /\ stepRuns = 0
  /\ commentBody = <<>>
  /\ comments = <<>>

InitWith(Sources, Ignores, Jsons, Lists, Contents, Fails, Criticals) ==
  /\ NoCommentStep
  /\ pc = "start"
  /\ wfFeatures \in Sources
  /\ ignoreFile \in Ignores
  /\ jsonFile \in Jsons
  /\ fsFiles \in Lists
  /\ fsContent \in Contents
  /\ failOnLimited \in Fails
  /\ criticalFeatures \in Criticals
  /\ baselineIgnore = {}
  /\ defaultFeatures = <<>>
  /\ baselineJson = EmptyObject
  /\ localOverrides = <<>>
  /\ merged = <<>>
  /\ features = <<>>
  /\ files = <<>>
  /\ fileIdx = 0
  /\ report = <<>>
  /\ results = <<>>
  /\ unsafe = <<>>
  /\ criticalDetected = <<>>
  /\ ok = TRUE

\* the verdict: every critical list and flag, over well-formed catalogs
Init ==
  InitWith(ScanCatalogSources, {NoIgnoreFile}, ScanJsonFiles, FileLists,
           {c \in FileContents : \A p \in Paths : c[p].parses},
           BOOLEAN, CriticalLists)

\* the catalogs of the scan specification: the fold does not read baseline
AggregationCatalogSources ==
  ObjectsOf({e \in ScanObjectItems : e.baseline = BTrue}, MaxBundled)

\* the scan: every file list and text, over well-formed catalogs
InitScan ==
  InitWith(AggregationCatalogSources, {NoIgnoreFile}, ScanJsonFiles, FileLists,
           FileContents, {TRUE}, {<<>>})

\* the catalog build: every source, ignore file and override file
InitCatalog ==
  InitWith(CatalogSources, IgnoreFiles, JsonFiles, {<<ScriptPath>>},
           {[p \in Paths |-> Text(<<>>)], [p \in Paths |-> Text(<<<<"f">>>>)]},
           {TRUE}, {<<>>})

\* ---------------------------------------------------------------- actions
catalogVars == <<baselineIgnore, defaultFeatures, baselineJson, localOverrides,
                 merged, features>>
scanVars == <<files, fileIdx, report>>
verdictVars == <<results, unsafe, criticalDetected, ok>>

\* line 127
LoadIgnore ==
  /\ pc = "start"
  /\ baselineIgnore' = loadBaselineIgnore(ignoreFile)
  /\ pc' = "ignore"
  /\ UNCHANGED <<commentVars, inputs, defaultFeatures, baselineJson, localOverrides, merged,
                 features, scanVars, verdictVars>>

\* line 130
NormalizeBundled ==
  /\ pc = "ignore"
  /\ LET r == normalizeFeatures(wfFeatures) IN
       /\ defaultFeatures' = r.value
       /\ pc' = IF r.threw THEN "threw" ELSE "catalog"
  /\ UNCHANGED <<commentVars, inputs, baselineIgnore, baselineJson, localOverrides, merged,
                 features, scanVars, verdictVars>>

\* lines 133-139
LoadOverrides ==
  /\ pc = "catalog"
  /\ baselineJson' = loadBaselineJson(jsonFile)
  /\ LET r == LocalOverridesOf(baselineJson') IN
       /\ localOverrides' = r.value
       /\ pc' = IF r.threw THEN "threw" ELSE "overrides"
  /\ UNCHANGED <<commentVars, inputs, baselineIgnore, defaultFeatures, merged, features,
                 scanVars, verdictVars>>

\* lines 142-148
Merge ==
  /\ pc = "overrides"
  /\ merged' = MergeCatalog(defaultFeatures, localOverrides, baselineIgnore)
  /\ features' = MapValues(merged')
  /\ pc' = "merged"
  /\ UNCHANGED <<commentVars, inputs, baselineIgnore, defaultFeatures, baselineJson,
                 localOverrides, scanVars, verdictVars>>

\* lines 152-153
Discover ==
  /\ pc = "merged"
  /\ files' = fsFiles
  /\ report' = <<>>
  /\ fileIdx' = 0
  /\ pc' = "scan"
  /\ UNCHANGED <<commentVars, inputs, catalogVars, verdictVars>>

\* lines 155-170, one iteration
ScanFile ==
  /\ pc = "scan"
  /\ fileIdx < Len(files)
  /\ LET file == files[fileIdx + 1]
         r == ScanOne(report, file, fsContent[file], features)
     IN /\ report' = r.value
        /\ pc' = IF r.threw THEN "threw" ELSE "scan"
  /\ fileIdx' = fileIdx + 1
  /\ UNCHANGED <<commentVars, inputs, catalogVars, files, verdictVars>>

\* lines 172-183 and the return of line 210
Evaluate ==
  /\ pc = "scan"
  /\ fileIdx = Len(files)
  /\ results' = ResultsOf(report)
  /\ unsafe' = UnsafeOf(results')
  /\ criticalDetected' = CriticalDetectedOf(results', criticalFeatures)
  /\ ok' = OkOf(failOnLimited, unsafe', criticalDetected')
  /\ pc' = "done"
  /\ UNCHANGED <<commentVars, inputs, catalogVars, scanVars>>

Next ==
  \/ LoadIgnore
  \/ NormalizeBundled
  \/ LoadOverrides
  \/ Merge
  \/ Discover
  \/ ScanFile
  \/ Evaluate

Spec == Init /\ [][Next]_vars

SpecScan == InitScan /\ [][Next]_vars

SpecCatalog == InitCatalog /\ [][Next]_vars

\* the report order: longer file lists over texts that parse
InitOrder ==
  InitWith(AggregationCatalogSources, {NoIgnoreFile},
           {j \in ScanJsonFiles :
              j.state = "parsed" => j.value.items[1].baseline = BTrue},
           SeqsUpTo(Paths, MaxOrderFiles),
           {c \in FileContents : \A p \in Paths : c[p].parses},
           {TRUE}, {<<>>})

SpecOrder == InitOrder /\ [][Next]_vars

\* ------------------------------------------------------------- properties
AfterNormalize == {"catalog", "overrides", "merged", "scan", "done"}
AfterOverrides == {"overrides", "merged", "scan", "done"}
AfterMerge == {"merged", "scan", "done"}

NoDuplicates(s) == \A i, j \in 1..Len(s) : i < j => s[i] # s[j]

\* equal when both are case-folded
SameFolded(a, b) == OptLower(a) = OptLower(b)

\* C1: when run has returned, ok is false exactly when failOnLimited is set
\* and some report record has baseline false or an id that is in the critical
\* list (ids and list elements compared as the critical entries are defined,
\* without regard to letter case).
C1_VerdictRule ==
  pc = "done" =>
    (ok = FALSE <=>
       (failOnLimited /\
          ((\E i \in 1..Len(results) : results[i].baseline = BFalse) \/
           (\E i \in 1..Len(results) : \E c \in Range(criticalFeatures) :
              SameFolded(results[i].id, c)))))

\* C2: after the merge no Feature of the merged table has its case-folded
\* name or its case-folded id in the ignore set, and no report entry exists
\* for such a Feature.
C2_IgnoreExclusion ==
  pc \in AfterMerge =>
    /\ \A i \in 1..Len(merged) :
         /\ OptLower(merged[i].value.name) \notin baselineIgnore
         /\ OptLower(merged[i].value.id) \notin baselineIgnore
    /\ \A i \in 1..Len(report) :
         /\ OptLower(report[i].value.feature.name) \notin baselineIgnore
         /\ OptLower(report[i].value.feature.id) \notin baselineIgnore

\* the last local override whose case-folded name is key
LastOverride(key) ==
  localOverrides[CHOOSE k \in 1..Len(localOverrides) :
    /\ ToLowerCase(localOverrides[k].name) = key
    /\ \A k2 \in (k + 1)..Len(localOverrides) :
         ToLowerCase(localOverrides[k2].name) # key]

\* C3: after the merge the table holds one Feature per case-folded name, each
\* under the case-folding of its own name, and where a local override has a
\* name that is not ignored, the entry under its case-folded name is that
\* override (the last one of that folded name), whatever the bundled catalog
\* holds under the same folded name; an ignored name has no entry.
C3_OverridePrecedence ==
  pc \in AfterMerge =>
    /\ \A i, j \in 1..Len(merged) : i < j => merged[i].key # merged[j].key
    /\ \A i \in 1..Len(merged) : merged[i].key = OptLower(merged[i].value.name)
    /\ \A k \in 1..Len(localOverrides) :
         LET key == ToLowerCase(localOverrides[k].name) IN
         IF key \in baselineIgnore
           THEN ~MapHas(merged, key)
           ELSE MapHas(merged, key) /\ MapGet(merged, key) = LastOverride(key)

\* C3 witness: a bundled feature with baseline false and a local override
\* with baseline true, of names that differ in letter case only, have been
\* merged, and the entry has baseline true.
C3_Witness ==
  /\ pc = "merged"
  /\ \E b \in Range(defaultFeatures) : \E o \in Range(localOverrides) :
       /\ b.name # o.name
       /\ SameFolded(b.name, o.name)
       /\ b.baseline = BFalse
       /\ o.baseline = BTrue
       /\ MapHas(merged, ToLowerCase(o.name))
       /\ MapGet(merged, ToLowerCase(o.name)).baseline = BTrue

\* C4: criticalDetected holds exactly the report records whose id equals an
\* element of the critical list when both are case-folded, in report order.
C4_CriticalEntries ==
  pc = "done" =>
    LET IsCritical(r) == \E c \in Range(criticalFeatures) : SameFolded(r.id, c)
    IN criticalDetected = SelectSeq(results, IsCritical)

\* what the detector of the k-th scanned file returned (nothing when the read
\* or the detector threw)
DetectedIn(k) ==
  LET r == FileDetections(files[k], fsContent[files[k]], features)
  IN IF r.threw THEN <<>> ELSE r.value

\* the paths, among the files scanned so far, in which a Feature of this id
\* was detected
HitPaths(id) ==
  {files[k] : k \in {j \in 1..fileIdx : \E f \in Range(DetectedIn(j)) : f.id = id}}

\* C5: while and after the files are folded, the report has one entry per id,
\* an entry's file set holds no path twice and is exactly the set of scanned
\* paths in which a Feature of its id was detected, every detected id has an
\* entry and no entry has an empty file set; the records returned carry the
\* same file sets.
C5_AggregationDedup ==
  pc \in {"scan", "done"} =>
    /\ \A i, j \in 1..Len(report) : i < j => report[i].key # report[j].key
    /\ \A i \in 1..Len(report) :
         /\ NoDuplicates(report[i].value.files)
         /\ report[i].value.files # <<>>
         /\ Range(report[i].value.files) = HitPaths(report[i].key)
    /\ \A k \in 1..fileIdx : \A f \in Range(DetectedIn(k)) : MapHas(report, f.id)
    /\ pc = "done" =>
         /\ Len(results) = Len(report)
         /\ \A i \in 1..Len(report) :
              /\ results[i].id = report[i].key
              /\ results[i].files = report[i].value.files

\* C5 witness: run has returned after scanning the same path twice, and a
\* Feature was detected in it.
C5_Witness ==
  /\ pc = "done"
  /\ \E i, j \in 1..Len(files) :
       /\ i < j
       /\ files[i] = files[j]
       /\ \E e \in 1..Len(report) : files[i] \in Range(report[e].value.files)

\* C6: after the merge no two Features of the merged table have the same id.
C6_UniqueIds ==
  pc \in AfterMerge =>
    \A i, j \in 1..Len(merged) : i < j => merged[i].value.id # merged[j].value.id

\* a file that cannot be read, a script that does not parse, a stylesheet
\* whose parse throws
FileFails(p) == ~fsContent[p].readable \/ ~fsContent[p].parses

\* C7: in the file loop, a step on a failing file leaves the report as it was
\* and moves on to the next file; the loop never ends in an error, and it
\* ends, by the verdict, only when every file has been taken.
C7_FailureTolerance ==
  [][pc = "scan" =>
       /\ pc' \in {"scan", "done"}
       /\ pc' = "done" => (fileIdx = Len(files) /\ report' = report)
       /\ (fileIdx < Len(files) /\ FileFails(files[fileIdx + 1])) =>
            (report' = report /\ fileIdx' = fileIdx + 1 /\ pc' = "scan")]_vars

\* C7 witness: run has returned; a file failed, and a file after it put its
\* path into the report.
C7_Witness ==
  /\ pc = "done"
  /\ \E i, j \in 1..Len(files) :
       /\ i < j
       /\ FileFails(files[i])
       /\ ~FileFails(files[j])
       /\ \E e \in 1..Len(report) : files[j] \in Range(report[e].value.files)

\* C8: the catalog build never fails: run never ends in an error, a bundled
\* source that is neither a sequence nor a mapping yields no Feature, and an
\* override content that is not a mapping yields no override.
C8_CatalogNeverFails ==
  /\ pc # "threw"
  /\ (pc \in AfterNormalize /\ wfFeatures.kind \notin {"array", "object"}) =>
       defaultFeatures = <<>>
  /\ (pc \in AfterOverrides /\ baselineJson.kind # "object") =>
       localOverrides = <<>>

\* the file loop of run over a list of files
RECURSIVE ScanAll(_, _)
ScanAll(rep, fileSeq) ==
  IF fileSeq = <<>> THEN rep
  ELSE ScanAll(ScanOne(rep, Head(fileSeq), fsContent[Head(fileSeq)], features).value,
               Tail(fileSeq))

Orders(fileSeq) ==
  {[k \in 1..Len(fileSeq) |-> fileSeq[p[k]]] :
     p \in {q \in [1..Len(fileSeq) -> 1..Len(fileSeq)] :
              \A a, b \in 1..Len(fileSeq) : a # b => q[a] # q[b]}}

\* report records, their order and the order of their files put aside
RecordSet(res) ==
  {[id |-> res[i].id, name |-> res[i].name, baseline |-> res[i].baseline,
    files |-> Range(res[i].files)] : i \in 1..Len(res)}

\* C9: when run has returned, folding the same files in any other order gives
\* the same set of report records and the same verdict (ok, unsafe records,
\* critical records).
C9_OrderIndependent ==
  pc = "done" =>
    \A o \in Orders(files) :
      LET res == ResultsOf(ScanAll(<<>>, o))
          uns == UnsafeOf(res)
          crit == CriticalDetectedOf(res, criticalFeatures)
      IN /\ RecordSet(res) = RecordSet(results)
         /\ RecordSet(uns) = RecordSet(unsafe)
         /\ RecordSet(crit) = RecordSet(criticalDetected)
         /\ OkOf(failOnLimited, uns, crit) = ok

\* C10: once normalizeFeatures has returned for a sequence or a mapping of
\* records, every Feature's baseline is its record's baseline when present,
\* else the record's status when present, else false.
C10_BaselineFallback ==
  (pc \in AfterNormalize /\ wfFeatures.kind \in {"array", "object"}) =>
    \A i \in 1..Len(defaultFeatures) :
      LET rec == wfFeatures.items[i] IN
      defaultFeatures[i].baseline =
        (IF rec.baseline # BUndef THEN rec.baseline
         ELSE IF rec.status # BUndef THEN rec.status
         ELSE BFalse)

\* the ids of the hits folded so far, in the order of folding: file by file,
\* and within a file in the order the detector returned its Features
RECURSIVE HitIds(_)
HitIds(k) ==
  IF k = 0 THEN <<>>
  ELSE HitIds(k - 1) \o [h \in 1..Len(DetectedIn(k)) |-> DetectedIn(k)[h].id]

\* the place of the first hit of an id in a sequence of hit ids (0 when it
\* has none)
FirstHit(hits, id) ==
  IF \E h \in 1..Len(hits) : hits[h] = id
    THEN CHOOSE h \in 1..Len(hits) :
           hits[h] = id /\ \A h2 \in 1..(h - 1) : hits[h2] # id
    ELSE 0

\* C11: while and after the files are folded, the report lists its entries in
\* first-seen order: an entry precedes another exactly when the first hit of
\* its id was folded before the first hit of the other's id, however many
\* later hits either id had; the records returned are in the same order.
C11_FirstSeenOrder ==
  pc \in {"scan", "done"} =>
    LET hits == HitIds(fileIdx) IN
    /\ \A a, b \in 1..Len(report) :
         a < b <=> FirstHit(hits, report[a].key) < FirstHit(hits, report[b].key)
    /\ \A a \in 1..Len(report) : FirstHit(hits, report[a].key) > 0
    /\ pc = "done" =>
         /\ Len(results) = Len(report)
         /\ \A a \in 1..Len(results) : results[a].id = report[a].key

\* C11 witness: run has returned two records, and the id of the first one was
\* hit again after the first hit of the second one.
C11_Witness ==
  /\ pc = "done"
  /\ Len(results) = 2
  /\ LET hits == HitIds(fileIdx) IN
     \E h \in 1..Len(hits) :
       /\ hits[h] = results[1].id
       /\ h > FirstHit(hits, results[2].id)

\* ------------------------------------------- the pull-request comment step
\* The step of src/README.md (lines 311-399).  A comment body is a sequence of
\* pieces of text, each a tuple of strings; a comment is [id, type, body].

\* the heading line every body the step builds begins with (line 338), and
\* the prefix line 375 looks for
ReportHeading == <<<<"## Baseline Feature Check Report">>>>

\* body.startsWith(prefix)
StartsWith(body, prefix) ==
  Len(body) >= Len(prefix) /\ SubSeq(body, 1, Len(prefix)) = prefix

\* uniqueFiles.slice(0, 5): the display limit of line 351
DisplayLimit == 5

\* the page of comments one listComments request returns when, as on line
\* 368, it is given no per_page and is not paginated: the first 30
PageSize == 30

\* mdnLink(featureId)
mdnLink(featureId) == IF featureId = "" THEN "" ELSE "MDN"

\* getSeverity(feature) and its label (lines 308, 359)
getSeverity(feature) == IF feature.critical THEN "fail" ELSE "warning"

SeverityLabel(feature) == IF getSeverity(feature) = "fail" THEN "Fail" ELSE "Warning"

\* Array.from(new Set(f.files))
RECURSIVE UniqueOf(_, _)
UniqueOf(seen, fs) ==
  IF fs = <<>> THEN seen ELSE UniqueOf(SetAdd(seen, Head(fs)), Tail(fs))

\* one table row (lines 348-362)
ReportRow(f) ==
  LET uniqueFiles == UniqueOf(<<>>, f.files)
      shown == SubSeq(uniqueFiles, 1,
                      IF Len(uniqueFiles) > DisplayLimit THEN DisplayLimit
                      ELSE Len(uniqueFiles))
      moreFiles == IF Len(uniqueFiles) > DisplayLimit
                     THEN Digits[Len(uniqueFiles) - DisplayLimit + 1] ELSE ""
  IN <<"row", f.name, f.id, mdnLink(f.id), SeverityLabel(f), shown, moreFiles>>

\* (scanResults.details || []).filter(f => f.baseline === false)
NonBaselineOf(scanResults) ==
  LET T(f) == f.baseline = BFalse IN SelectSeq(scanResults.details, T)

\* lines 338-365
BuildBody(scanResults) ==
  LET nonBaseline == NonBaselineOf(scanResults) IN
  IF scanResults.ok \/ Len(nonBaseline) = 0
    THEN ReportHeading \o <<<<"none found">>>>
    ELSE ReportHeading
           \o <<<<"count", Digits[Len(nonBaseline) + 1]>>, <<"table head">>>>
           \o [r \in 1..Len(nonBaseline) |-> ReportRow(nonBaseline[r])]
           \o <<<<"footer">>>>

\* comments.find(c => c.user.type === 'Bot' && c.body.startsWith(heading))
IsReportComment(c) == c.type = "Bot" /\ StartsWith(c.body, ReportHeading)

HasExisting(page) == \E i \in 1..Len(page) : IsReportComment(page[i])

Existing(page) ==
  page[CHOOSE i \in 1..Len(page) :
         IsReportComment(page[i]) /\ \A j \in 1..(i - 1) : ~IsReportComment(page[j])]

\* issues.listComments({owner, repo, issue_number}): one page
FirstPage(all) ==
  SubSeq(all, 1, IF Len(all) > PageSize THEN PageSize ELSE Len(all))

\* issues.updateComment({comment_id, body})
UpdateComment(all, id, body) ==
  [i \in 1..Len(all) |-> IF all[i].id = id THEN [all[i] EXCEPT !.body = body]
                         ELSE all[i]]

\* issues.createComment({issue_number, body}), by the step's Bot account
CreateComment(all, body) ==
  Append(all, [id |-> Len(all) + 1, type |-> "Bot", body |-> body])

\* the scan-results input of a run: text that does not parse, or a value
DetailRecords ==
  {[id |-> "f", name |-> "F", baseline |-> BFalse, critical |-> FALSE,
    files |-> <<"a.js", "a.js", "b.css">>],
   [id |-> "", name |-> "H", baseline |-> BFalse, critical |-> TRUE,
    files |-> <<>>],
   [id |-> "g", name |-> "G", baseline |-> BTrue, critical |-> FALSE,
    files |-> <<"a.js">>]}

ScanResultInputs ==
  {[valid |-> FALSE, ok |-> FALSE, details |-> <<>>]} \cup
  {[valid |-> TRUE, ok |-> o, details |-> d] :
     o \in BOOLEAN, d \in SeqsUpTo(DetailRecords, MaxDetails)}

runVars == <<pc, inputs, catalogVars, scanVars, verdictVars>>

\* lines 312-365: read the inputs and build the body; a scan-results text
\* that does not parse ends the run in setFailed
BuildComment ==
  /\ stepPc = "idle"
  /\ stepRuns < MaxRuns
  /\ stepRuns' = stepRuns + 1
  /\ \E sr \in ScanResultInputs :
       IF sr.valid
         THEN commentBody' = BuildBody(sr) /\ stepPc' = "list"
         ELSE commentBody' = <<>> /\ stepPc' = "idle"
  /\ UNCHANGED <<prComments, comments, runVars>>

\* lines 368-372
ListComments ==
  /\ stepPc = "list"
  /\ comments' = FirstPage(prComments)
  /\ stepPc' = "post"
  /\ UNCHANGED <<prComments, stepRuns, commentBody, runVars>>

\* lines 374-394
PostComment ==
  /\ stepPc = "post"
  /\ prComments' = IF HasExisting(comments)
                     THEN UpdateComment(prComments, Existing(comments).id, commentBody)
                     ELSE CreateComment(prComments, commentBody)
  /\ stepPc' = "idle"
  /\ UNCHANGED <<stepRuns, commentBody, comments, runVars>>

OtherCount == Cardinality({i \in 1..Len(prComments) : prComments[i].type = "User"})

\* someone else comments on the pull request
OtherComment ==
  /\ OtherCount < MaxOtherComments
  /\ prComments' = Append(prComments, [id |-> Len(prComments) + 1, type |-> "User",
                                       body |-> <<<<"review">>>>])
  /\ UNCHANGED <<stepPc, stepRuns, commentBody, comments, runVars>>

NextComment ==
  \/ BuildComment
  \/ ListComments
  \/ PostComment
  \/ OtherComment

InitComment ==
  InitWith({UndefinedValue}, {NoIgnoreFile},
           {[state |-> "missing", value |-> UndefinedValue]}, {<<>>},
           {[p \in Paths |-> Text(<<>>)]}, {TRUE}, {<<>>})

SpecComment == InitComment /\ [][NextComment]_vars

\* C12: whenever a run of the step has finished, the pull request holds at
\* most one comment whose body starts with the report heading, and when the
\* latest run built a body, that comment exists and has that body.
C12_SingleReportComment ==
  stepPc = "idle" =>
    LET heads == {i \in 1..Len(prComments) :
                    StartsWith(prComments[i].body, ReportHeading)}
    IN /\ Cardinality(heads) <= 1
       /\ commentBody # <<>> =>
            \E i \in heads : prComments[i].body = commentBody

====
